---- MODULE Spec2Model ----
(***************************************************************************)
(* Model of the qvh-data-load batch job (src/src/main.py and the adapters  *)
(* it calls in blob.py, fileshare.py, sql.py and utils.py).                *)
(*                                                                         *)
(* One run of main.py walks three feeds in order: the object-store feed    *)
(* ("blob"), the file-share generic feed ("share") and the file-share      *)
(* ElectiveRecovery feed ("er").  The remote stores, the database tables   *)
(* and the audit log outlive a run; everything else is local to a run and  *)
(* is rebuilt by Restart.  Every call to a remote service or the database  *)
(* either succeeds or raises; nothing in the program catches an exception, *)
(* so a raise ends the run.                                                *)
(*                                                                         *)
(* Spec is the run.  FairSpec is the run with the archive call's poll loop *)
(* kept going.  MergeSpec is a call of one of the three MERGE statements   *)
(* through execute_query, on a staging table and a target table.  NormSpec *)
(* is the lines that normalize one parsed file, taken one by one.          *)
(***************************************************************************)
EXTENDS Integers, Sequences, FiniteSets, TLC

VARIABLES
    remote,        \* remote stores: path -> content id, or NoFile
    staging,       \* staging tables: staging table name -> table, or NoTable
    merged,        \* target tables: the files whose merge has committed
    auditLog,      \* scd.MetricFileLog: rows appended by log_file
    pc,            \* position of the run in main.py
    feed,          \* index in FeedSeq of the feed being processed
    listing,       \* the storage service's answer to the listing call just made
    files,         \* main.py `files`: sorted, filtered candidates of the feed
    idx,           \* position of the for loop in `files`
    local,         \* content of the file downloaded to ./{run_id}/{file_name}
    data,          \* main.py `data`
    previous_data, \* main.py `previous_data`
    data_changed,  \* main.py `data_changed`
    copyStatus,    \* copy status of the archive call in progress
    err,           \* the exception that ended the run, or NoErr
    events,        \* history of the current run: the calls that took effect
    polls          \* pending answers read by the archive call in progress

\* The merge statements on their own (specification MergeSpec).
VARIABLES
    stmt,          \* the merge statement called: "blob", "share" or "er"
    source,        \* rows of the staging table the statement reads
    target,        \* committed rows of the table the statement writes
    txn,           \* the transaction's view of the target table, or NoTxn
    mpc,           \* position in execute_query and in the statement
    before,        \* the target table when the last call began
    now,           \* GETDATE() of the call
    commits        \* calls that have committed

\* The normalization of one parsed file on its own (specification NormSpec).
VARIABLES
    rawTable,      \* what process_file returned
    normFeed,      \* the feed whose lines are applied: "blob" or "share"
    normAt,        \* the line reached
    normData       \* main.py `data` at that line, or the error raised

run == <<remote, staging, merged, auditLog, pc, feed, listing, files, idx,
         local, data, previous_data, data_changed, copyStatus, err, events,
         polls>>

reconciler == <<stmt, source, target, txn, mpc, before, now, commits>>

normalizer == <<rawTable, normFeed, normAt, normData>>

\* What a run of main.py leaves alone.
apart == <<reconciler, normalizer>>

vars == <<run, reconciler, normalizer>>

persistent == <<remote, staging, merged, auditLog>>

\* ------------------------------------------------------------------ bounds
\* Most entries the remote stores hold when the first run starts.
MaxFiles == 2
\* Last-modified stamps are drawn from 1..MaxTime.
MaxTime == 2
\* The archive call counts the pending answers it has read up to MaxPolls and
\* then starts over.
MaxPolls == 2

\* ------------------------------------------------------------- sentinels
NoFile == "NoFile"
NoTable == [none |-> TRUE]
NoData == [none |-> TRUE]
NoErr == [type |-> "none", at |-> "none", n |-> 0]
NoCopy == "NoCopy"
NoPath == [store |-> "none", dir |-> "none", stem |-> "none", ext |-> "none"]
NoTxn == [none |-> TRUE]

\* ----------------------------------------------------------------- feeds
FeedSeq == <<"blob", "share", "er">>

BlobArchiveDir == "home/IQPR/Processed"
ShareArchiveDir == "Uploads/IQPR/Processed"

FeedDir(f) == IF f = "share" THEN "Uploads/IQPR" ELSE "Uploads/IQPR/ElectiveRecovery"

StagingName(f) == IF f = "er" THEN "Metrics_ElectiveRecovery" ELSE "Metrics_Generic"

SourceLabel(f) == IF f = "er" THEN "FileShare" ELSE "SFTP"

\* ------------------------------------------------------------ file names
\* A path is [store, dir, stem, ext]; the name the program sees is
\* dir/stem.ext in the object store and stem.ext in a file-share directory.
Path(s, d, st, e) == [store |-> s, dir |-> d, stem |-> st, ext |-> e]

\* The entries that may be waiting in the source locations when the first run
\* starts: two blobs with the same base name, names in upper case and with a
\* foreign extension, and the two file-share directories.
SourcePaths ==
    { Path("blob", "in1", "x", "csv"), Path("blob", "in2", "x", "csv"),
      Path("blob", "in1", "z", "CSV"), Path("blob", "in1", "n", "txt"),
      Path("share", "Uploads/IQPR", "x", "csv"),
      Path("share", "Uploads/IQPR", "y", "csv"),
      Path("share", "Uploads/IQPR", "z", "CSV"),
      Path("share", "Uploads/IQPR/ElectiveRecovery", "x", "csv") }

ArchivePaths ==
    { [p EXCEPT !.dir = IF p.store = "blob" THEN BlobArchiveDir
                        ELSE ShareArchiveDir] : p \in SourcePaths }

AllPaths == SourcePaths \cup ArchivePaths

\* file.split("/")[-1], as a cell value
FileName(p) == <<p.stem, ".", p.ext>>

\* --------------------------------------------------------- file contents
\* A table is [cols, rows]: column names in order, and rows of cells aligned
\* with them.  A cell is a sequence of characters.
RequiredColumns ==
    {"Metric Name", "Period", "Specialty/Trust", "Numerator", "Denominator"}

CanonicalColumns ==
    <<"Metric Name", "Period", "Specialty/Trust", "Numerator", "Denominator",
      "SourceFile">>

PeriodRaw == <<"0", "1", "/", "0", "3", "/", "2", "0", "2", "4">>

\* What the bytes of a file parse to.
ContentIds == {"good", "empty", "nonum"}

\* The contents an entry may have when the first run starts.  A file the
\* loader never reads (filtered out, or refused by its extension) has one.
InitialContents(p) ==
    IF p.ext # "csv" THEN {"good"}
    ELSE IF p.dir \in {"in1", "Uploads/IQPR"} /\ p.stem = "x"
         THEN {"good", "empty", "nonum"}
         ELSE {"good", "empty"}

ParsedTable(c) ==
    CASE c = "good" ->
           [cols |-> <<"Metric Name", "Period", "Specialty/Trust", "Numerator",
                       "Denominator">>,
            rows |-> << <<<<"M">>, PeriodRaw, <<"S">>, <<"5">>, <<"7">>>> >>]
      [] c = "empty" ->
           [cols |-> <<"Metric Name", "Period", "Specialty/Trust", "Numerator",
                       "Denominator">>,
            rows |-> <<>>]
      [] c = "nonum" ->
           [cols |-> <<"Metric Name", "Period", "Specialty/Trust", "Denominator">>,
            rows |-> << <<<<"M">>, PeriodRaw, <<"S">>, <<"7">>>> >>]

Range(s) == { s[i] : i \in 1..Len(s) }

IndexOf(s, x) == CHOOSE i \in 1..Len(s) : s[i] = x

\* ------------------------------------------------------------- utils.py
Lower(e) == IF e = "CSV" THEN "csv" ELSE e

AllowedExtensions == {"csv", "xls", "xlsx"}

FilterAccepts(p) == Lower(p.ext) \in AllowedExtensions

filter_files(fs) == SelectSeq(fs, FilterAccepts)

LoaderAccepts(p) == p.ext \in {"csv", "xls", "xlsx"}

\* data["SourceFile"] = file_name: a new last column, or the existing one
\* overwritten.
WithSourceFile(t, p) ==
    IF "SourceFile" \in Range(t.cols)
    THEN [t EXCEPT !.rows =
             [i \in 1..Len(t.rows) |->
                 [t.rows[i] EXCEPT ![IndexOf(t.cols, "SourceFile")] = FileName(p)]]]
    ELSE [cols |-> Append(t.cols, "SourceFile"),
          rows |-> [i \in 1..Len(t.rows) |-> Append(t.rows[i], FileName(p))]]

\* process_file: [ok, data] or [ok, err]
process_file(p, c) ==
    IF ~LoaderAccepts(p) THEN [ok |-> FALSE, err |-> "DataFileError"]
    ELSE [ok |-> TRUE, data |-> WithSourceFile(ParsedTable(c), p)]

\* --------------------------------------------- listing (blob.py, fileshare.py)
\* Mutant of InsertByModified: an entry goes before the entries already placed
\* that have its stamp.
RECURSIVE InsertBeforeTies(_, _)
InsertBeforeTies(sorted, e) ==
    IF sorted = <<>> THEN <<e>>
    ELSE IF sorted[Len(sorted)].last_modified < e.last_modified
         THEN Append(sorted, e)
         ELSE Append(InsertBeforeTies(SubSeq(sorted, 1, Len(sorted) - 1), e),
                     sorted[Len(sorted)])

\* list.sort(key=lambda x: x[1]) is stable: an entry goes after every entry
\* already placed whose stamp is not greater.
RECURSIVE InsertByModified(_, _)
InsertByModified(sorted, e) ==
    IF sorted = <<>> THEN <<e>>
    ELSE IF sorted[Len(sorted)].last_modified <= e.last_modified
         THEN Append(sorted, e)
         ELSE Append(InsertByModified(SubSeq(sorted, 1, Len(sorted) - 1), e),
                     sorted[Len(sorted)])

RECURSIVE SortByModified(_)
SortByModified(l) ==
    IF l = <<>> THEN <<>>
    ELSE InsertByModified(SortByModified(SubSeq(l, 1, Len(l) - 1)), l[Len(l)])

NamesOf(l) == [i \in 1..Len(l) |-> l[i].name]

\* Mutant of HasProcessed: the name filter finds nothing.
HasProcessedNever(p) == FALSE

\* "Processed" in file
HasProcessed(p) == p.dir = BlobArchiveDir

\* The candidates of a feed from the service's answer: main.py lines 48-50,
\* 110-111 and 205-206.
Candidates(f, l) ==
    IF f = "blob"
    THEN filter_files(SelectSeq(NamesOf(SortByModified(l)),
                                LAMBDA p : ~HasProcessed(p)))
    ELSE filter_files(NamesOf(SortByModified(l)))

\* ------------------------------------------------ Period transform (main.py)
\* str(s).lstrip('01/'): drops leading characters while they are in the set.
StripChars == {"0", "1", "/"}

RECURSIVE LStrip(_, _)
LStrip(s, chars) ==
    IF s # <<>> /\ Head(s) \in chars THEN LStrip(Tail(s), chars) ELSE s

Digits == <<"0", "1", "2", "3", "4", "5", "6", "7", "8", "9">>

IsDigit(c) == c \in Range(Digits)

DigitVal(c) == IndexOf(Digits, c) - 1

RECURSIVE NumVal(_)
NumVal(s) ==
    IF s = <<>> THEN 0 ELSE 10 * NumVal(SubSeq(s, 1, Len(s) - 1)) + DigitVal(s[Len(s)])

IsSeparator(c) == c \in {"/", "-"}

\* The digit groups of a string, split at separators.
RECURSIVE SplitFields(_, _, _)
SplitFields(s, cur, acc) ==
    IF s = <<>> THEN Append(acc, cur)
    ELSE IF IsSeparator(Head(s)) THEN SplitFields(Tail(s), <<>>, Append(acc, cur))
    ELSE SplitFields(Tail(s), Append(cur, Head(s)), acc)

NaT == [nat |-> TRUE]

Date(d, m, y) == [nat |-> FALSE, day |-> d, month |-> m, year |-> y]

\* pd.to_datetime of one string: [ok, value].  An empty string is NaT; a lone
\* year is 1 January; month/year is the first of the month; three fields are
\* read month first, and day first when the first field is no month.
ToDatetime(s) ==
    LET f == SplitFields(s, <<>>, <<>>)
        n == [i \in 1..Len(f) |-> NumVal(f[i])]
        bad == [ok |-> FALSE, err |-> "ValueError"]
    IN  IF s = <<>> THEN [ok |-> TRUE, value |-> NaT]
        ELSE IF \E i \in 1..Len(s) : ~IsDigit(s[i]) /\ ~IsSeparator(s[i]) THEN bad
        ELSE IF \E i \in 1..Len(f) : f[i] = <<>> THEN bad
        ELSE IF Len(f) = 1 THEN [ok |-> TRUE, value |-> Date(1, 1, n[1])]
        ELSE IF Len(f) = 2
             THEN IF n[1] \in 1..12 THEN [ok |-> TRUE, value |-> Date(1, n[1], n[2])]
                  ELSE bad
        ELSE IF Len(f) = 3
             THEN IF n[1] \in 1..12 /\ n[2] \in 1..31
                  THEN [ok |-> TRUE, value |-> Date(n[2], n[1], n[3])]
                  ELSE IF n[1] \in 1..31 /\ n[2] \in 1..12
                       THEN [ok |-> TRUE, value |-> Date(n[1], n[2], n[3])]
                       ELSE bad
        ELSE bad

TwoDigits(n) == <<Digits[((n \div 10) % 10) + 1], Digits[(n % 10) + 1]>>

FourDigits(n) == TwoDigits(n \div 100) \o TwoDigits(n % 100)

\* dt.strftime('%d-%m-%Y'); NaT renders as a missing value.
Strftime(d) ==
    IF d.nat THEN <<"NaN">>
    ELSE TwoDigits(d.day) \o <<"-">> \o TwoDigits(d.month) \o <<"-">>
         \o FourDigits(d.year)

\* main.py lines 81-83 on one cell: [ok, value] or [ok, err]
PeriodCell(s) ==
    LET parsed == ToDatetime(LStrip(s, StripChars))
    IN  IF parsed.ok THEN [ok |-> TRUE, value |-> Strftime(parsed.value)]
        ELSE parsed

\* main.py lines 81-83 on a table that has a Period column.
PeriodTransform(t) ==
    LET k == IndexOf(t.cols, "Period")
        cells == [i \in 1..Len(t.rows) |-> PeriodCell(t.rows[i][k])]
    IN  IF \E i \in 1..Len(t.rows) : ~cells[i].ok
        THEN [ok |-> FALSE, err |-> "ValueError"]
        ELSE [ok |-> TRUE,
              data |-> [t EXCEPT !.rows =
                           [i \in 1..Len(t.rows) |->
                               [t.rows[i] EXCEPT ![k] = cells[i].value]]]]

\* DataFrame.equals
Equals(a, b) == a.cols = b.cols /\ a.rows = b.rows

\* Mutant of IsDuplicate: the comparison with the previous file is lost.
IsDuplicateNever(prev, cur) == FALSE

\* previous_data is not None and previous_data.equals(data)
IsDuplicate(prev, cur) == prev # NoData /\ Equals(prev, cur)

\* The blob feed's lines 68-88: "reject", "raise", "dup" or "stage".
PrepareBlob(prev, raw) ==
    IF ~(RequiredColumns \subseteq Range(raw.cols))
    THEN [out |-> "reject"]
    ELSE IF Len(raw.cols) # Len(CanonicalColumns)
    THEN [out |-> "raise", err |-> "ValueError"]
    ELSE LET t == PeriodTransform([raw EXCEPT !.cols = CanonicalColumns])
         IN  IF ~t.ok THEN [out |-> "raise", err |-> t.err]
             ELSE IF IsDuplicate(prev, t.data) THEN [out |-> "dup"]
             ELSE [out |-> "stage", data |-> t.data]

\* The file-share feeds' lines 131-138 and 226-233.
PrepareShare(prev, raw) ==
    IF IsDuplicate(prev, raw) THEN [out |-> "dup"]
    ELSE IF "Period" \notin Range(raw.cols)
    THEN [out |-> "raise", err |-> "KeyError"]
    ELSE LET t == PeriodTransform(raw)
         IN  IF ~t.ok THEN [out |-> "raise", err |-> t.err]
             ELSE [out |-> "stage", data |-> t.data]

Prepare(f, prev, raw) ==
    IF f = "blob" THEN PrepareBlob(prev, raw) ELSE PrepareShare(prev, raw)

\* ------------------------------------------------------------ the run
StagingNames == {"Metrics_Generic", "Metrics_ElectiveRecovery"}

CopyStatuses == {"pending", "success", "failed", "aborted"}

Running ==
    {"list", "download", "parse", "prepare", "stage", "merge", "copy", "poll",
     "delete", "log", "jobend", "storedproc"}

CurFeed == FeedSeq[feed]

CurFile == files[idx]

\* Where the archive call of the current file copies it to: main.py line 63
\* and fileshare.py lines 112-117.
ArchiveDest(f, p) ==
    IF f = "blob" THEN [p EXCEPT !.dir = BlobArchiveDir]
    ELSE [p EXCEPT !.dir = ShareArchiveDir]

\* The order of a file's steps.  The blob feed archives after the merge
\* (main.py lines 99-104); the file-share feeds archive right after the
\* download (lines 120-130 and 215-225).
AfterDownload(f) == IF f = "blob" THEN "parse" ELSE "copy"

AfterMerge(f) == IF f = "blob" THEN "copy" ELSE "log"

AfterDelete(f) == IF f = "blob" THEN "log" ELSE "parse"

\* A call that took effect, with the file it was for, the content downloaded
\* for that file and the copy status last read.
FileEvent(op) ==
    [op |-> op, feed |-> CurFeed, file |-> CurFile, content |-> local,
     status |-> copyStatus]

JobEvent(op) ==
    [op |-> op, feed |-> "job", file |-> NoPath, content |-> NoFile,
     status |-> NoCopy]

RECURSIVE SubsetsUpTo(_, _)
SubsetsUpTo(S, k) ==
    IF k = 0 THEN {{}}
    ELSE LET r == SubsetsUpTo(S, k - 1)
         IN  r \cup { T \cup {x} : T \in r, x \in S }

\* The answers the storage service can give to a listing of the entries S:
\* every entry once, in any order, each with a last-modified stamp.
RECURSIVE ListingsOf(_)
ListingsOf(S) ==
    IF S = {} THEN {<<>>}
    ELSE UNION { { <<[name |-> p, last_modified |-> t]>> \o r :
                       t \in 1..MaxTime, r \in ListingsOf(S \ {p}) } : p \in S }

\* The entries a feed's listing call sees: every blob of the container, or the
\* files of the feed's directory.
Listed(f) ==
    IF f = "blob" THEN { p \in AllPaths : p.store = "blob" /\ remote[p] # NoFile }
    ELSE { p \in AllPaths : p.store = "share" /\ p.dir = FeedDir(f)
                             /\ remote[p] # NoFile }

\* A run leaves the state of the other specifications at rest.
ReconcilerOff ==
    /\ stmt = "none"
    /\ source = <<>>
    /\ target = <<>>
    /\ txn = NoTxn
    /\ mpc = "off"
    /\ before = <<>>
    /\ now = 0
    /\ commits = 0

NormalizerOff ==
    /\ rawTable = NoData
    /\ normFeed = "none"
    /\ normAt = "off"
    /\ normData = NoData

Init ==
    /\ ReconcilerOff
    /\ NormalizerOff
    /\ polls = 0
    /\ \E S \in SubsetsUpTo(SourcePaths, MaxFiles) :
         \E c \in [S -> ContentIds] :
            /\ \A p \in S : c[p] \in InitialContents(p)
            /\ remote = [p \in AllPaths |-> IF p \in S THEN c[p] ELSE NoFile]
    /\ staging = [n \in StagingNames |-> NoTable]
    /\ merged = {}
    /\ auditLog = <<>>
    /\ pc = "list"
    /\ feed = 1
    /\ listing = <<>>
    /\ files = <<>>
    /\ idx = 0
    /\ local = NoFile
    /\ data = NoData
    /\ previous_data = NoData
    /\ data_changed = FALSE
    /\ copyStatus = NoCopy
    /\ err = NoErr
    /\ events = <<>>

\* The end of one pass of a feed's for loop: the next file, the next feed, or
\* the end of the job.
NextFile ==
    IF idx < Len(files)
    THEN /\ idx' = idx + 1
         /\ pc' = "download"
         /\ feed' = feed
    ELSE /\ idx' = idx
         /\ feed' = IF feed < Len(FeedSeq) THEN feed + 1 ELSE feed
         /\ pc' = IF feed < Len(FeedSeq) THEN "list" ELSE "jobend"

\* Mutant of Raise: the failure is caught where the file is processed, noted,
\* and the loop goes on.
RaiseSkipsFile(e) ==
    /\ err' = [type |-> e, at |-> pc, n |-> Len(events)]
    /\ NextFile
    /\ UNCHANGED <<apart, polls, persistent, listing, files, local, data, previous_data,
                   data_changed, copyStatus, events>>

\* An uncaught exception: the interpreter unwinds and the process exits.
Raise(e) ==
    /\ pc' = "failed"
    /\ err' = [type |-> e, at |-> pc, n |-> Len(events)]
    /\ UNCHANGED <<apart, polls, persistent, feed, listing, files, idx, local, data,
                   previous_data, data_changed, copyStatus, events>>

\* Mutant of ListFiles: `previous_data = None` is left out.
ListFilesKeepsMemory ==
    /\ pc = "list"
    /\ \/ Raise("TransferError")
       \/ \E l \in ListingsOf(Listed(CurFeed)) :
            LET fs == Candidates(CurFeed, l)
            IN  /\ listing' = l
                /\ files' = fs
                /\ IF fs # <<>>
                   THEN /\ idx' = 1
                        /\ pc' = "download"
                        /\ feed' = feed
                   ELSE /\ idx' = 0
                        /\ feed' = IF feed < Len(FeedSeq) THEN feed + 1 ELSE feed
                        /\ pc' = IF feed < Len(FeedSeq) THEN "list" ELSE "jobend"
                /\ UNCHANGED <<apart, polls, persistent, local, data, previous_data,
                               data_changed, copyStatus, err, events>>

\* list_files_in_blob_storage / list_files_in_fileshare, then the filters and
\* the `if files != []` test.
ListFiles ==
    /\ pc = "list"
    /\ \/ Raise("TransferError")
       \/ \E l \in ListingsOf(Listed(CurFeed)) :
            LET fs == Candidates(CurFeed, l)
            IN  /\ listing' = l
                /\ files' = fs
                /\ IF fs # <<>>
                   THEN /\ previous_data' = NoData
                        /\ idx' = 1
                        /\ pc' = "download"
                        /\ feed' = feed
                   ELSE /\ previous_data' = previous_data
                        /\ idx' = 0
                        /\ feed' = IF feed < Len(FeedSeq) THEN feed + 1 ELSE feed
                        /\ pc' = IF feed < Len(FeedSeq) THEN "list" ELSE "jobend"
                /\ UNCHANGED <<apart, polls, persistent, local, data, data_changed, copyStatus,
                               err, events>>

\* download_file_from_blob_storage / download_from_fileshare
Download ==
    /\ pc = "download"
    /\ \/ Raise("TransferError")
       \/ /\ remote[CurFile] # NoFile
          /\ local' = remote[CurFile]
          /\ listing' = <<>>
          /\ events' = Append(events, [FileEvent("download") EXCEPT
                                       !.content = remote[CurFile]])
          /\ pc' = AfterDownload(CurFeed)
          /\ UNCHANGED <<apart, polls, persistent, feed, files, idx, data,
                         previous_data, data_changed, copyStatus, err>>

\* data = process_file(...)
ProcessFile ==
    /\ pc = "parse"
    /\ LET r == process_file(CurFile, local)
       IN  IF r.ok
           THEN /\ data' = r.data
                /\ pc' = "prepare"
                /\ UNCHANGED <<apart, polls, persistent, feed, listing, files, idx, local,
                               previous_data, data_changed, copyStatus, err, events>>
           ELSE Raise(r.err)

\* The column test, the renaming, the Period transform and the comparison with
\* the previous file, in the order the feed has them.
PrepareData ==
    /\ pc = "prepare"
    /\ LET r == Prepare(CurFeed, previous_data, data)
       IN  CASE r.out = "raise" -> Raise(r.err)
             [] r.out \in {"reject", "dup"} ->
                  /\ events' = Append(events, FileEvent(r.out))
                  /\ NextFile
                  /\ UNCHANGED <<apart, polls, persistent, listing, files, local, data,
                                 previous_data, data_changed, copyStatus, err>>
             [] r.out = "stage" ->
                  /\ data' = r.data
                  /\ pc' = "stage"
                  /\ UNCHANGED <<apart, polls, persistent, feed, listing, files, idx, local,
                                 previous_data, data_changed, copyStatus, err, events>>

\* Mutant of ToSql: the rows are added to those the table holds
\* (if_exists="append").
ToSqlAppends ==
    /\ pc = "stage"
    /\ \/ Raise("DatabaseError")
       \/ /\ staging' = [staging EXCEPT ![StagingName(CurFeed)] =
                            IF @ = NoTable THEN data
                            ELSE [cols |-> data.cols, rows |-> @.rows \o data.rows]]
          /\ data_changed' = IF CurFeed = "blob" THEN data_changed ELSE TRUE
          /\ events' = Append(events, FileEvent("stage"))
          /\ pc' = "merge"
          /\ UNCHANGED <<apart, polls, remote, merged, auditLog, feed, listing, files, idx,
                         local, data, previous_data, copyStatus, err>>

\* data.to_sql(..., if_exists="replace"); the file-share feeds set
\* data_changed right after it (lines 147 and 242).
ToSql ==
    /\ pc = "stage"
    /\ \/ Raise("DatabaseError")
       \/ /\ staging' = [staging EXCEPT ![StagingName(CurFeed)] = data]
          /\ data_changed' = IF CurFeed = "blob" THEN data_changed ELSE TRUE
          /\ events' = Append(events, FileEvent("stage"))
          /\ pc' = "merge"
          /\ UNCHANGED <<apart, polls, remote, merged, auditLog, feed, listing, files, idx,
                         local, data, previous_data, copyStatus, err>>

\* Mutant of Merge: a failure of the statement is caught and the file goes on
\* to its next step.
MergeFailureCaught ==
    /\ pc = "merge"
    /\ \/ /\ pc' = AfterMerge(CurFeed)
          /\ UNCHANGED <<apart, polls, persistent, feed, listing, files, idx, local,
                         data, previous_data, data_changed, copyStatus, err, events>>
       \/ /\ merged' = merged \cup {CurFile}
          /\ data_changed' = IF CurFeed = "blob" THEN TRUE ELSE data_changed
          /\ events' = Append(events, FileEvent("merge"))
          /\ pc' = AfterMerge(CurFeed)
          /\ UNCHANGED <<apart, polls, remote, staging, auditLog, feed, listing, files, idx,
                         local, data, previous_data, copyStatus, err>>

\* merge_data / execute_query(merge_query): commits, or rolls back and
\* raises; the blob feed sets data_changed after it (line 100).
Merge ==
    /\ pc = "merge"
    /\ \/ Raise("DatabaseError")
       \/ /\ merged' = merged \cup {CurFile}
          /\ data_changed' = IF CurFeed = "blob" THEN TRUE ELSE data_changed
          /\ events' = Append(events, FileEvent("merge"))
          /\ pc' = AfterMerge(CurFeed)
          /\ UNCHANGED <<apart, polls, remote, staging, auditLog, feed, listing, files, idx,
                         local, data, previous_data, copyStatus, err>>

\* start_copy_from_url
StartCopy ==
    /\ pc = "copy"
    /\ \/ Raise("TransferError")
       \/ /\ copyStatus' = "pending"
          /\ events' = Append(events, FileEvent("copy"))
          /\ pc' = "poll"
          /\ UNCHANGED <<apart, polls, persistent, feed, listing, files, idx, local, data,
                         previous_data, data_changed, err>>

\* What the archive call does once the status it reads is terminal:
\* archive_in_blob goes on to the delete whatever the status;
\* archive_in_fileshare raises unless it is "success".
AfterCopy(f, s) ==
    IF f = "blob" \/ s = "success"
    THEN [out |-> "delete"]
    ELSE [out |-> "raise", err |-> "FileShareError"]

\* One read of the copy status.  While it is "pending" the call reads again,
\* with no limit on the reads or on the time; a successful copy has put the
\* content at the destination.
PollCopy ==
    /\ pc = "poll"
    /\ \/ Raise("TransferError")
       \/ \E s \in CopyStatuses :
            IF s = "pending"
            THEN /\ polls' = (polls + 1) % MaxPolls
                 /\ UNCHANGED <<apart, persistent, pc, feed, listing, files, idx,
                                local, data, previous_data, data_changed,
                                copyStatus, err, events>>
            ELSE /\ polls' = 0
                 /\ remote' = IF s = "success"
                              THEN [remote EXCEPT
                                      ![ArchiveDest(CurFeed, CurFile)] = remote[CurFile]]
                              ELSE remote
                 /\ copyStatus' = s
                 /\ events' = Append(events, [FileEvent("copied") EXCEPT
                                                 !.status = s])
                 /\ IF AfterCopy(CurFeed, s).out = "delete"
                    THEN /\ pc' = "delete"
                         /\ err' = err
                    ELSE /\ pc' = "failed"
                         /\ err' = [type |-> AfterCopy(CurFeed, s).err, at |-> pc,
                                    n |-> Len(events) + 1]
                 /\ UNCHANGED <<apart, staging, merged, auditLog, feed, listing,
                                files, idx, local, data, previous_data,
                                data_changed>>

\* src_blob_client.delete_blob() / source_file_client.delete_file()
DeleteSource ==
    /\ pc = "delete"
    /\ \/ Raise("TransferError")
       \/ /\ remote' = [remote EXCEPT ![CurFile] = NoFile]
          /\ events' = Append(events, FileEvent("delete"))
          /\ pc' = AfterDelete(CurFeed)
          /\ UNCHANGED <<apart, polls, staging, merged, auditLog, feed, listing, files, idx,
                         local, data, previous_data, data_changed, copyStatus, err>>

\* Mutant of LogFile: the insert is not executed.
LogFileNoRow ==
    /\ pc = "log"
    /\ \/ Raise("DatabaseError")
       \/ /\ previous_data' = data
          /\ NextFile
          /\ UNCHANGED <<apart, polls, persistent, listing, files, local, data, data_changed,
                         copyStatus, err, events>>

\* log_file(...) and `previous_data = data`
LogFile ==
    /\ pc = "log"
    /\ \/ Raise("DatabaseError")
       \/ /\ auditLog' = Append(auditLog, [file_name |-> FileName(CurFile),
                                            source |-> SourceLabel(CurFeed)])
          /\ events' = Append(events, FileEvent("log"))
          /\ previous_data' = data
          /\ NextFile
          /\ UNCHANGED <<apart, polls, remote, staging, merged, listing, files, local, data,
                         data_changed, copyStatus, err>>

\* Mutant of JobEnd: the refresh signal is sent whatever the flag.
JobEndIgnoresFlag ==
    /\ pc = "jobend"
    /\ \/ Raise("DatabaseError")
       \/ /\ events' = Append(events, JobEvent("refresh"))
          /\ pc' = "storedproc"
          /\ UNCHANGED <<apart, polls, persistent, feed, listing, files, idx, local, data,
                         previous_data, data_changed, copyStatus, err>>

\* main.py lines 324-332: the refresh signal, or the no-new-data error.
JobEnd ==
    /\ pc = "jobend"
    /\ IF data_changed
       THEN \/ Raise("DatabaseError")
            \/ /\ events' = Append(events, JobEvent("refresh"))
               /\ pc' = "storedproc"
               /\ UNCHANGED <<apart, polls, persistent, feed, listing, files, idx, local, data,
                              previous_data, data_changed, copyStatus, err>>
       ELSE Raise("NoNewData")

\* execute_query("exec scd.UpdateCalculatedMeasures")
StoredProc ==
    /\ pc = "storedproc"
    /\ \/ Raise("DatabaseError")
       \/ /\ events' = Append(events, JobEvent("storedproc"))
          /\ pc' = "done"
          /\ UNCHANGED <<apart, polls, persistent, feed, listing, files, idx, local, data,
                         previous_data, data_changed, copyStatus, err>>

\* The process is killed where it is.
Kill ==
    /\ pc \in Running
    /\ pc' = "killed"
    /\ err' = [type |-> "Killed", at |-> pc, n |-> Len(events)]
    /\ UNCHANGED <<apart, polls, persistent, feed, listing, files, idx, local, data,
                   previous_data, data_changed, copyStatus, events>>

\* The job is started again: a new process, the same stores and database.
Restart ==
    /\ pc \in {"failed", "killed", "done"}
    /\ pc' = "list"
    /\ feed' = 1
    /\ listing' = <<>>
    /\ files' = <<>>
    /\ idx' = 0
    /\ local' = NoFile
    /\ data' = NoData
    /\ previous_data' = NoData
    /\ data_changed' = FALSE
    /\ copyStatus' = NoCopy
    /\ err' = NoErr
    /\ events' = <<>>
    /\ polls' = 0
    /\ UNCHANGED <<apart, persistent>>

Next ==
    \/ ListFiles
    \/ Download
    \/ ProcessFile
    \/ PrepareData
    \/ ToSql
    \/ Merge
    \/ StartCopy
    \/ PollCopy
    \/ DeleteSource
    \/ LogFile
    \/ JobEnd
    \/ StoredProc
    \/ Kill
    \/ Restart

Spec == Init /\ [][Next]_vars

\* The interpreter keeps running the archive call's loop: while the call is
\* polling, the status is read again.  Nothing is assumed of the answers of
\* the storage service.
FairSpec == Spec /\ WF_vars(PollCopy)

TypeOK ==
    /\ pc \in Running \cup {"failed", "killed", "done"}
    /\ feed \in 1..Len(FeedSeq)
    /\ data_changed \in BOOLEAN
    /\ idx \in 0..Len(files)
    /\ \A p \in AllPaths : remote[p] \in ContentIds \cup {NoFile}

\* --------------------------------------------- the merge statements (SQL)
\* A value of a table is a sequence of characters; Null is SQL's NULL, which
\* to_sql writes for a missing cell.
Null == <<"NULL">>

Empty == <<>>

\* Three-valued comparisons: "T", "F" or "U" (unknown).
SqlEq(a, b) == IF a = Null \/ b = Null THEN "U" ELSE IF a = b THEN "T" ELSE "F"

SqlNe(a, b) == IF a = Null \/ b = Null THEN "U" ELSE IF a # b THEN "T" ELSE "F"

SqlOr(x, y) ==
    IF x = "T" \/ y = "T" THEN "T" ELSE IF x = "F" /\ y = "F" THEN "F" ELSE "U"

SqlAnd(x, y) ==
    IF x = "F" \/ y = "F" THEN "F" ELSE IF x = "T" /\ y = "T" THEN "T" ELSE "U"

\* A condition selects a row only when it is true.
Holds(x) == x = "T"

\* ISNULL(a, d)
IsNull(a, d) == IF a = Null THEN d ELSE a

\* CAST(s AS DATE) under SET DATEFORMAT DMY: [ok, value], the value in the
\* server's year-month-day form.
CastDate(s) ==
    LET f == SplitFields(s, <<>>, <<>>)
    IN  IF s = Null THEN [ok |-> TRUE, value |-> Null]
        ELSE IF /\ Len(f) = 3
                /\ \A i \in 1..3 : f[i] # <<>> /\ \A k \in 1..Len(f[i]) : IsDigit(f[i][k])
                /\ NumVal(f[1]) \in 1..31
                /\ NumVal(f[2]) \in 1..12
             THEN [ok |-> TRUE,
                   value |-> FourDigits(NumVal(f[3])) \o <<"-">>
                             \o TwoDigits(NumVal(f[2])) \o <<"-">>
                             \o TwoDigits(NumVal(f[1]))]
             ELSE [ok |-> FALSE]

\* scd.measure: the measures the database knows.
Measure == { [measure_id |-> <<"1">>, measure_description |-> <<"M">>] }

\* The fiscal year the ElectiveRecovery statement reads from scd.PeriodTable
\* for the month before GETDATE(); the calls of the model fall in one month.
FiscalYear(t) == <<"2", "4", "/", "2", "5">>

\* The USING clause: the rows the statement reads.  The two statements on
\* scd.Metric join staging to scd.measure and keep the rows with a numerator
\* (sql.py lines 98-108, main.py lines 151-163); the ElectiveRecovery
\* statement reads the staging table as it is (main.py line 244).
\* Mutant of HasNumerator: the WHERE clause is left out.
HasNumeratorAlways(st, r) == TRUE

HasNumerator(st, r) ==
    IF st = "blob" THEN Holds(SqlNe(IsNull(r.Numerator, Empty), Empty))
    ELSE r.Numerator # Null

SourceSet(st, rows) ==
    IF st = "er" THEN rows
    ELSE LET joined(r) == { m \in Measure :
                              Holds(SqlEq(m.measure_description, r.MetricName)) }
             kept == SelectSeq(rows, LAMBDA r : joined(r) # {} /\ HasNumerator(st, r))
         IN  [i \in 1..Len(kept) |->
                 [measure_id |-> (CHOOSE m \in joined(kept[i]) : TRUE).measure_id,
                  Period |-> CastDate(kept[i].Period).value,
                  SpecialtyTrust |-> kept[i].SpecialtyTrust,
                  Numerator |-> kept[i].Numerator,
                  Denominator |-> kept[i].Denominator,
                  SourceFile |-> kept[i].SourceFile]]

ERKeyColumns ==
    {"ElectiveRecoveryGroup", "ReportingPODDescription", "OPS",
     "SpecialtyDescription", "OnSite", "Month"}

\* The ON clause: sql.py lines 109-111, main.py lines 164-166 and 245-257.
Matches(st, t, s, at) ==
    IF st = "er"
    THEN /\ \A c \in ERKeyColumns : Holds(SqlEq(t[c], s[c]))
         /\ Holds(SqlEq(t.FYear, FiscalYear(at)))
    ELSE Holds(SqlAnd(SqlEq(t.Measure_ID, s.measure_id),
                      SqlAnd(SqlEq(t.Period, s.Period),
                             SqlEq(t.DIM1, s.SpecialtyTrust))))

\* Mutant of UpdateCondition: WHEN MATCHED THEN UPDATE, with no condition.
UpdateConditionAlways(st, t, s) == TRUE

\* The condition of WHEN MATCHED: sql.py line 112, main.py lines 167-168 and
\* 258-261.
UpdateCondition(st, t, s) ==
    CASE st = "blob" ->
           Holds(SqlOr(SqlNe(s.Numerator, t.Numerator),
                       SqlNe(IsNull(s.Denominator, Empty),
                             IsNull(t.Denominator, Empty))))
      [] st = "share" ->
           Holds(SqlOr(SqlNe(s.Numerator, t.Numerator),
                       SqlNe(s.Denominator, t.Denominator)))
      [] st = "er" ->
           Holds(SqlOr(SqlNe(t.Plan, s.Plan),
                       SqlOr(SqlNe(t.Activity, s.Activity),
                             SqlNe(t.Variance, s.Variance))))

\* UPDATE SET: sql.py lines 114-119, main.py lines 170-175 and 263-284.
UpdatedRow(st, t, s, at) ==
    IF st = "er"
    THEN [t EXCEPT !.Plan = IF s.Plan # Null THEN s.Plan ELSE t.Plan,
                   !.Activity = IF s.Activity # Null THEN s.Activity ELSE t.Activity,
                   !.Variance = IF s.Variance # Null THEN s.Variance ELSE t.Variance,
                   !.SourceFile = s.SourceFile,
                   !.FYear = FiscalYear(at)]
    ELSE [t EXCEPT !.Numerator = s.Numerator,
                   !.Denominator = s.Denominator,
                   !.UpdatedBy = s.SourceFile,
                   !.UpdateDTTM = at,
                   !.UpdateType = "Updated"]

\* INSERT ... VALUES: sql.py lines 121-140, main.py lines 177-196 and 287-316.
InsertedRow(st, s, at) ==
    IF st = "er"
    THEN [ElectiveRecoveryGroup |-> s.ElectiveRecoveryGroup,
          ReportingPODDescription |-> s.ReportingPODDescription,
          OPS |-> s.OPS,
          SpecialtyDescription |-> s.SpecialtyDescription,
          OnSite |-> s.OnSite,
          Month |-> s.Month,
          Plan |-> s.Plan,
          Activity |-> s.Activity,
          Variance |-> s.Variance,
          SourceFile |-> s.SourceFile,
          FYear |-> FiscalYear(at)]
    ELSE [Measure_ID |-> s.measure_id,
          Period |-> s.Period,
          DIM1 |-> s.SpecialtyTrust,
          Numerator |-> s.Numerator,
          Denominator |-> s.Denominator,
          UpdatedBy |-> s.SourceFile,
          UpdateDTTM |-> at,
          UpdateType |-> "Inserted"]

\* The rows of the source set that the ON clause pairs with a target row.
MatchesOf(st, t, src, at) == { j \in 1..Len(src) : Matches(st, t, src[j], at) }

\* Mutant of WhenMatched: a row the ON clause pairs with no row of the source
\* set is deleted (WHEN NOT MATCHED BY SOURCE THEN DELETE).
WhenMatchedOrDeleted(st, tbl, src, at) ==
    LET kept == SelectSeq(tbl, LAMBDA t : MatchesOf(st, t, src, at) # {})
    IN  [i \in 1..Len(kept) |->
            LET hits == { j \in MatchesOf(st, kept[i], src, at) :
                            UpdateCondition(st, kept[i], src[j]) }
            IN  IF hits = {} THEN kept[i]
                ELSE UpdatedRow(st, kept[i], src[CHOOSE j \in hits : TRUE], at)]

\* WHEN MATCHED AND ... THEN UPDATE, on every row of the table.
WhenMatched(st, tbl, src, at) ==
    [i \in 1..Len(tbl) |->
        LET hits == { j \in MatchesOf(st, tbl[i], src, at) :
                        UpdateCondition(st, tbl[i], src[j]) }
        IN  IF hits = {} THEN tbl[i]
            ELSE UpdatedRow(st, tbl[i], src[CHOOSE j \in hits : TRUE], at)]

\* Mutant of WhenNotMatched: every row of the source set is inserted.
WhenNotMatchedInsertsAll(st, tbl, old, src, at) ==
    tbl \o [j \in 1..Len(src) |-> InsertedRow(st, src[j], at)]

\* WHEN NOT MATCHED BY TARGET THEN INSERT: the rows of the source set that the
\* ON clause pairs with no row the table had when the statement began.
WhenNotMatched(st, tbl, old, src, at) ==
    LET fresh == SelectSeq(src, LAMBDA s :
                     \A i \in 1..Len(old) : ~Matches(st, old[i], s, at))
    IN  tbl \o [j \in 1..Len(fresh) |-> InsertedRow(st, fresh[j], at)]

\* The whole statement on a table.
MergeResult(st, tbl, rows, at) ==
    LET src == SourceSet(st, rows)
    IN  WhenNotMatched(st, WhenMatched(st, tbl, src, at), tbl, src, at)

\* A Period the statement cannot cast fails the statement.
Castable(st, rows) ==
    IF st = "er" THEN TRUE
    ELSE \A i \in 1..Len(rows) : CastDate(rows[i].Period).ok

\* ------------------------------------------- the merge statements, called
\* Most rows in a staging table.
MaxRows == 2
\* Most calls of the merge on one staging table.
MaxCalls == 2

Period0 == Strftime(Date(1, 3, 2024))

MetricRow(name, dim, num, den) ==
    [MetricName |-> name, Period |-> Period0, SpecialtyTrust |-> dim,
     Numerator |-> num, Denominator |-> den]

\* Rows a normalized file of the two scd.Metric feeds may hold: one key with
\* several measure values and with missing cells, a metric scd.measure does
\* not know, a missing key cell, a second key, and a numerator cell the file
\* leaves empty.
MetricRows ==
    << MetricRow(<<"M">>, <<"S">>, <<"5">>, <<"7">>),
       MetricRow(<<"M">>, <<"S">>, <<"6">>, <<"7">>),
       MetricRow(<<"M">>, <<"S">>, <<"5">>, Null),
       MetricRow(<<"M">>, <<"S">>, Null, <<"7">>),
       MetricRow(<<"U">>, <<"S">>, <<"5">>, <<"7">>),
       MetricRow(<<"M">>, Null, <<"5">>, <<"7">>),
       MetricRow(<<"M">>, <<"T">>, <<"5">>, <<"7">>),
       MetricRow(<<"M">>, <<"S">>, Empty, <<"7">>) >>

ERRow(ops, month, plan, activity, variance) ==
    [ElectiveRecoveryGroup |-> <<"G">>, ReportingPODDescription |-> <<"P">>,
     OPS |-> ops, SpecialtyDescription |-> <<"D">>, OnSite |-> <<"Y">>,
     Month |-> month, Plan |-> plan, Activity |-> activity,
     Variance |-> variance]

\* Rows a file of the ElectiveRecovery feed may hold.
ERRows ==
    << ERRow(<<"O">>, <<"4">>, <<"1">>, <<"2">>, <<"3">>),
       ERRow(<<"O">>, <<"4">>, <<"9">>, <<"2">>, <<"3">>),
       ERRow(<<"O">>, <<"4">>, Null, <<"2">>, <<"3">>),
       ERRow(<<"O">>, <<"4">>, Null, <<"8">>, <<"3">>),
       ERRow(Null, <<"4">>, <<"1">>, <<"2">>, <<"3">>),
       ERRow(<<"O">>, <<"5">>, <<"1">>, <<"2">>, <<"3">>) >>

Statements == {"blob", "share", "er"}

Catalogue(st) == IF st = "er" THEN ERRows ELSE MetricRows

\* The columns the ON clause compares, as the staging table has them.
NaturalKey(st, r) ==
    IF st = "er" THEN [c \in ERKeyColumns |-> r[c]]
    ELSE <<r.MetricName, r.Period, r.SpecialtyTrust>>

\* A file carries at most one row for a key.
UniqueKeys(st, rows) ==
    \A i \in 1..Len(rows), j \in 1..Len(rows) :
        i < j => NaturalKey(st, rows[i]) # NaturalKey(st, rows[j])

\* The subsequences of cat that have at most k rows.
RECURSIVE SubSeqs(_, _)
SubSeqs(cat, k) ==
    IF cat = <<>> \/ k = 0 THEN {<<>>}
    ELSE SubSeqs(Tail(cat), k)
         \cup { <<Head(cat)>> \o r : r \in SubSeqs(Tail(cat), k - 1) }

\* pd.read_csv / pd.read_excel with their default NA values: a cell the file
\* leaves empty is read as missing, and to_sql writes a missing cell as NULL.
ReadCell(c) == IF c = Empty THEN Null ELSE c

\* process_file: the cells as the loader reads them, and the SourceFile
\* column.
FromFile(rows, f) ==
    [i \in 1..Len(rows) |->
        [c \in DOMAIN rows[i] \cup {"SourceFile"} |->
            IF c = "SourceFile" THEN f ELSE ReadCell(rows[i][c])]]

Stagings(st) == { r \in SubSeqs(Catalogue(st), MaxRows) : UniqueKeys(st, r) }

OldFile == <<"o", ".", "c", "s", "v">>

NewFile == <<"n", ".", "c", "s", "v">>

\* A run of main.py is not under way.
RunOff ==
    /\ remote = [p \in AllPaths |-> NoFile]
    /\ staging = [n \in StagingNames |-> NoTable]
    /\ merged = {}
    /\ auditLog = <<>>
    /\ pc = "off"
    /\ feed = 1
    /\ listing = <<>>
    /\ files = <<>>
    /\ idx = 0
    /\ local = NoFile
    /\ data = NoData
    /\ previous_data = NoData
    /\ data_changed = FALSE
    /\ copyStatus = NoCopy
    /\ err = NoErr
    /\ events = <<>>
    /\ polls = 0

\* A staging table has been written, and the target table holds what an
\* earlier file of the feed left there.
MergeInit ==
    /\ RunOff
    /\ NormalizerOff
    /\ \E st \in Statements :
         \E old \in Stagings(st), new \in Stagings(st) :
            /\ stmt = st
            /\ source = FromFile(new, NewFile)
            /\ target = MergeResult(st, <<>>, FromFile(old, OldFile), 0)
    /\ txn = NoTxn
    /\ mpc = "call"
    /\ before = target
    /\ now = 1
    /\ commits = 0

\* execute_query lines 67-69: a connection, and a transaction on it.
Begin ==
    /\ mpc = "call"
    /\ txn' = target
    /\ before' = target
    /\ mpc' = "matched"
    /\ UNCHANGED <<run, normalizer, stmt, source, target, now, commits>>

\* conn_.execute(text(query)): the statement's updates ...
ExecMatched ==
    /\ mpc = "matched"
    /\ Castable(stmt, source)
    /\ txn' = WhenMatched(stmt, txn, SourceSet(stmt, source), now)
    /\ mpc' = "notmatched"
    /\ UNCHANGED <<run, normalizer, stmt, source, target, before, now, commits>>

\* ... and its inserts.
ExecNotMatched ==
    /\ mpc = "notmatched"
    /\ txn' = WhenNotMatched(stmt, txn, before, SourceSet(stmt, source), now)
    /\ mpc' = "commit"
    /\ UNCHANGED <<run, normalizer, stmt, source, target, before, now, commits>>

\* transaction.commit()
Commit ==
    /\ mpc = "commit"
    /\ target' = txn
    /\ txn' = NoTxn
    /\ commits' = commits + 1
    /\ mpc' = "committed"
    /\ UNCHANGED <<run, normalizer, stmt, source, before, now>>

\* Mutant of Rollback: what the statement had done is kept.
RollbackKeepsWork ==
    /\ mpc \in {"matched", "notmatched", "commit"}
    /\ target' = txn
    /\ txn' = NoTxn
    /\ mpc' = "raised"
    /\ UNCHANGED <<run, normalizer, stmt, source, before, now, commits>>

\* except Exception: transaction.rollback(); raise e -- the statement or the
\* commit failed, wherever it had got to.
Rollback ==
    /\ mpc \in {"matched", "notmatched", "commit"}
    /\ txn' = NoTxn
    /\ mpc' = "raised"
    /\ UNCHANGED <<run, normalizer, stmt, source, target, before, now, commits>>

\* The same staging table is merged again: the file is processed again by a
\* later run.
CallAgain ==
    /\ mpc \in {"committed", "raised"}
    /\ now < MaxCalls
    /\ now' = now + 1
    /\ mpc' = "call"
    /\ UNCHANGED <<run, normalizer, stmt, source, target, txn, before, commits>>

MergeNext ==
    \/ Begin
    \/ ExecMatched
    \/ ExecNotMatched
    \/ Commit
    \/ Rollback
    \/ CallAgain

MergeSpec == MergeInit /\ [][MergeNext]_vars

\* ------------------------------------- the normalization lines, one by one
\* Column orders a parsed file may have: the canonical one, two others, one
\* with a further column, and two that lack a required column.
ColumnOrders ==
    { <<"Metric Name", "Period", "Specialty/Trust", "Numerator", "Denominator">>,
      <<"Metric Name", "Period", "Specialty/Trust", "Denominator", "Numerator">>,
      <<"Period", "Metric Name", "Specialty/Trust", "Numerator", "Denominator">>,
      <<"Metric Name", "Period", "Specialty/Trust", "Numerator", "Denominator",
        "Notes">>,
      <<"Metric Name", "Period", "Specialty/Trust", "Numerator">>,
      <<"Metric Name", "Specialty/Trust", "Numerator", "Denominator", "Notes">> }

\* Period cells a file may hold.
PeriodStrings ==
    { <<"0", "1", "/", "0", "3", "/", "2", "0", "2", "4">>,
      <<"0", "1", "/", "1", "1", "/", "2", "0", "2", "4">>,
      <<"1", "0", "/", "2", "0", "2", "4">>,
      <<"0", "3", "/", "2", "0", "2", "4">>,
      <<"1", "5", "/", "0", "3", "/", "2", "0", "2", "4">>,
      <<"2", "0", "2", "4">>,
      <<"M", "a", "r">> }

\* The cell of row k under column c: a Period, or a value that names its
\* column and row.
RawCell(c, k, period) ==
    IF c = "Period" THEN period ELSE <<c, Digits[k + 1]>>

\* What process_file may return for a file of the feed.
RawTables ==
    { WithSourceFile([cols |-> o,
                      rows |-> [k \in 1..Len(ps) |->
                                   [i \in 1..Len(o) |-> RawCell(o[i], k, ps[k])]]],
                     Path("blob", "in1", "x", "csv")) :
        o \in ColumnOrders,
        ps \in UNION { [1..n -> PeriodStrings] : n \in 0..MaxRows } }

NormInit ==
    /\ RunOff
    /\ ReconcilerOff
    /\ rawTable \in RawTables
    /\ normFeed \in {"blob", "share"}
    /\ normAt = IF normFeed = "blob" THEN "columns" ELSE "strip"
    /\ normData = rawTable

NormRaise(e) ==
    /\ normData' = [err |-> e, at |-> normAt]
    /\ normAt' = "raised"
    /\ UNCHANGED <<run, reconciler, rawTable, normFeed>>

NormStep(to, d) ==
    /\ normData' = d
    /\ normAt' = to
    /\ UNCHANGED <<run, reconciler, rawTable, normFeed>>

\* main.py lines 68-70: the required columns, in the object-store feed.
CheckColumns ==
    /\ normAt = "columns"
    /\ IF RequiredColumns \subseteq Range(normData.cols)
       THEN NormStep("rename", normData)
       ELSE NormStep("rejected", normData)

\* main.py lines 73-80: data.columns = [...] names the columns by position,
\* and raises when the table has not six of them.
RenameColumns ==
    /\ normAt = "rename"
    /\ IF Len(normData.cols) = Len(CanonicalColumns)
       THEN NormStep("strip", [normData EXCEPT !.cols = CanonicalColumns])
       ELSE NormRaise("ValueError")

\* main.py lines 81, 136 and 231: data['Period'].apply(... lstrip('01/'))
StripPeriod ==
    /\ normAt = "strip"
    /\ IF "Period" \in Range(normData.cols)
       THEN LET k == IndexOf(normData.cols, "Period")
            IN  NormStep("parse",
                    [normData EXCEPT !.rows =
                        [i \in 1..Len(normData.rows) |->
                            [normData.rows[i] EXCEPT
                                ![k] = LStrip(normData.rows[i][k], StripChars)]]])
       ELSE NormRaise("KeyError")

\* main.py lines 82, 137 and 232: pd.to_datetime(data['Period'])
ParsePeriod ==
    /\ normAt = "parse"
    /\ LET k == IndexOf(normData.cols, "Period")
           parsed == [i \in 1..Len(normData.rows) |->
                         ToDatetime(normData.rows[i][k])]
       IN  IF \A i \in 1..Len(normData.rows) : parsed[i].ok
           THEN NormStep("format",
                    [normData EXCEPT !.rows =
                        [i \in 1..Len(normData.rows) |->
                            [normData.rows[i] EXCEPT ![k] = parsed[i].value]]])
           ELSE NormRaise("ValueError")

\* main.py lines 83, 138 and 233: data['Period'].dt.strftime('%d-%m-%Y')
FormatPeriod ==
    /\ normAt = "format"
    /\ LET k == IndexOf(normData.cols, "Period")
       IN  NormStep("normalized",
               [normData EXCEPT !.rows =
                   [i \in 1..Len(normData.rows) |->
                       [normData.rows[i] EXCEPT
                           ![k] = Strftime(normData.rows[i][k])]]])

NormNext ==
    \/ CheckColumns
    \/ RenameColumns
    \/ StripPeriod
    \/ ParsePeriod
    \/ FormatPeriod

NormSpec == NormInit /\ [][NormNext]_vars

\* ================================================================ claims
EventIdx == 1..Len(events)

HasEvent(op) == \E i \in EventIdx : events[i].op = op

\* The positions of the events of one kind for one file of one feed.
Occurrences(op, f, p) ==
    { i \in EventIdx : events[i].op = op /\ events[i].feed = f
                         /\ events[i].file = p }

\* C1: in every feed, a file's archive step (the copy to the archive location
\* and the delete of the source entry) happens only after that file's staging
\* replace and merge have committed.
C1_ArchiveAfterCommit ==
    \A i \in EventIdx :
        events[i].op \in {"copy", "copied", "delete"} =>
            \E j \in 1..(i - 1), k \in 1..(i - 1) :
                /\ j < k
                /\ j \in Occurrences("stage", events[i].feed, events[i].file)
                /\ k \in Occurrences("merge", events[i].feed, events[i].file)

\* C2: no step takes a candidate file away from its source location unless
\* its rows have been merged into the target table, so a run that is killed
\* or fails at any step loses no data.
C2_NoDataLoss ==
    [][\A p \in SourcePaths :
          (FilterAccepts(p) /\ remote[p] # NoFile /\ remote'[p] = NoFile)
              => p \in merged']_vars

\* C3: in both storage adapters the source entry is deleted only when the
\* copy ended in "success"; a copy that ended in any other status makes the
\* call raise an archive error and leaves the source entry in place.
C3_DeleteOnlyAfterSuccess ==
    /\ \A i \in EventIdx : events[i].op = "delete" => events[i].status = "success"
    /\ copyStatus \in {"failed", "aborted"} =>
          /\ pc = "failed"
          /\ err.type = "FileShareError"
          /\ remote[CurFile] # NoFile

\* The parsed columns of a file's content lack a required column.
LacksRequired(c) == ~(RequiredColumns \subseteq Range(ParsedTable(c).cols))

\* C4: in every feed, a file whose parsed columns lack a required column is
\* rejected, and no staging replace, merge, archive or audit log is executed
\* for it.
C4_RejectedHasNoEffects ==
    \A i \in EventIdx :
        (LoaderAccepts(events[i].file) /\ LacksRequired(events[i].content)) =>
            events[i].op \in {"download", "reject"}

\* C5: at job end the refresh signal is emitted when the changed flag is
\* true; when no feed changed anything the job fails with the no-new-data
\* error and the refresh signal is not invoked.
C5_RefreshOrNoNewData ==
    /\ HasEvent("refresh") => data_changed
    /\ pc \in {"storedproc", "done"} => HasEvent("refresh")
    /\ err.at = "jobend" =>
          /\ data_changed => err.type \in {"DatabaseError", "Killed"}
          /\ ~data_changed => err.type \in {"NoNewData", "Killed"}
    /\ err.type = "NoNewData" =>
          /\ pc = "failed"
          /\ err.at = "jobend"
          /\ ~data_changed
          /\ ~HasEvent("refresh")
          /\ ~HasEvent("stage")
    /\ (~HasEvent("stage") /\ err.at = "jobend" /\ pc = "failed") =>
          err.type = "NoNewData"

\* C5 witness: a run that saw files, changed nothing and failed at job end.
C5_Witness ==
    /\ err.type = "NoNewData"
    /\ HasEvent("reject")

\* The table a file normalizes to in a feed, when normalization accepts it:
\* [ok, data].
NormalizedTable(f, p, c) ==
    LET raw == process_file(p, c)
    IN  IF ~raw.ok THEN [ok |-> FALSE]
        ELSE IF f = "blob"
        THEN IF RequiredColumns \subseteq Range(raw.data.cols)
                /\ Len(raw.data.cols) = Len(CanonicalColumns)
             THEN PeriodTransform([raw.data EXCEPT !.cols = CanonicalColumns])
             ELSE [ok |-> FALSE]
        ELSE IF "Period" \in Range(raw.data.cols)
             THEN PeriodTransform(raw.data)
             ELSE [ok |-> FALSE]

NormalizedAt(i) ==
    NormalizedTable(events[i].feed, events[i].file, events[i].content)

\* Events i and j are the downloads of two files processed one right after
\* the other in the same feed.
ConsecutiveDownloads(i, j) ==
    /\ i < j
    /\ events[i].op = "download"
    /\ events[j].op = "download"
    /\ events[i].feed = events[j].feed
    /\ \A k \in (i + 1)..(j - 1) : events[k].op # "download"

\* The run has gone past the file downloaded at event j.
MovedPast(j) ==
    \/ \E k \in (j + 1)..Len(events) : events[k].op = "download"
    \/ pc \in {"jobend", "storedproc", "done"}

\* C6: of two files processed consecutively in a feed run whose normalized
\* tables are identical, the second is reported a duplicate and gets no
\* staging replace and no merge.
C6_DuplicateIsSkipped ==
    LET D == { i \in EventIdx : events[i].op = "download" }
    IN  \A i \in D : \A j \in D :
            (/\ ConsecutiveDownloads(i, j)
             /\ NormalizedAt(i).ok
             /\ NormalizedAt(j).ok
             /\ Equals(NormalizedAt(i).data, NormalizedAt(j).data))
            => /\ Occurrences("stage", events[j].feed, events[j].file) = {}
               /\ Occurrences("merge", events[j].feed, events[j].file) = {}
               /\ Occurrences("reject", events[j].feed, events[j].file) = {}
               /\ MovedPast(j) =>
                     Occurrences("dup", events[j].feed, events[j].file) # {}

\* C6 witness: a file with rows was found identical to the file downloaded
\* right before it.
C6_Witness ==
    \E i \in EventIdx :
        /\ events[i].op = "dup"
        /\ events[i].content = "good"
        /\ \E j \in 1..(i - 1) : ConsecutiveDownloads(j, i - 1)

\* The failures of a step that are neither transport nor database failures.
DataErrors == {"DataFileError", "ValueError", "KeyError"}

InfraErrors == {"TransferError", "DatabaseError"}

\* There is a candidate the run has not reached.
CandidateLeft ==
    \E p \in SourcePaths :
        /\ remote[p] # NoFile
        /\ FilterAccepts(p)
        /\ \A i \in EventIdx : events[i].file # p

PositionIn(l, p) == CHOOSE i \in 1..Len(l) : l[i].name = p

\* The entries of a listing that the feed's filters let through.
Accepted(f, l) ==
    { i \in 1..Len(l) : /\ FilterAccepts(l[i].name)
                        /\ f = "blob" => ~HasProcessed(l[i].name) }

DownloadsOf(f) ==
    SelectSeq(events, LAMBDA e : e.op = "download" /\ e.feed = f)

\* C9: the candidates of a feed are the accepted entries of the listing in
\* ascending last-modified order, ties in listing order, and the files of a
\* feed are processed one at a time in that order.
C9_ProcessedInModifiedOrder ==
    /\ (listing # <<>> /\ files # <<>>) =>
          /\ Len(files) = Cardinality(Accepted(CurFeed, listing))
          /\ \A i \in Accepted(CurFeed, listing) :
                \E k \in 1..Len(files) : files[k] = listing[i].name
          /\ \A a \in 1..Len(files), b \in 1..Len(files) :
                a < b =>
                    LET i == PositionIn(listing, files[a])
                        j == PositionIn(listing, files[b])
                    IN  \/ listing[i].last_modified < listing[j].last_modified
                        \/ /\ listing[i].last_modified = listing[j].last_modified
                           /\ i < j
    /\ LET d == DownloadsOf(CurFeed)
       IN  /\ Len(d) <= Len(files)
           /\ \A i \in 1..Len(d) : d[i].file = files[i]
    /\ \A i \in EventIdx :
          \/ events[i].feed = "job"
          \/ /\ events[i].op = "download"
             /\ \A k \in 1..(i - 1) :
                   ~(events[k].feed = events[i].feed
                     /\ events[k].file = events[i].file)
          \/ /\ events[i].op # "download"
             /\ i > 1
             /\ events[i - 1].feed = events[i].feed
             /\ events[i - 1].file = events[i].file

\* C9 witness: the service listed the newer candidate first and the older one
\* is the first to be processed.
C9_Witness ==
    /\ Len(listing) = 2
    /\ Len(files) = 2
    /\ listing[1].last_modified > listing[2].last_modified
    /\ files[1] = listing[2].name
    /\ pc = "download"

LogEvents == SelectSeq(events, LAMBDA e : e.op = "log")

MergeEvents == SelectSeq(events, LAMBDA e : e.op = "merge")

C11_MergeAtomic ==
    /\ mpc \in {"matched", "notmatched", "commit"} => target = before
    /\ mpc = "raised" => target = before /\ txn = NoTxn
    /\ mpc = "committed" =>
          /\ target = MergeResult(stmt, before, source, now)
          /\ txn = NoTxn

\* C11 witness: a call was rolled back whose statement had both a row to
\* update and a row to insert.
C11_Witness ==
    /\ mpc = "raised"
    /\ Castable(stmt, source)
    /\ WhenMatched(stmt, before, SourceSet(stmt, source), now) # before
    /\ Len(MergeResult(stmt, before, source, now)) > Len(before)

\* The rows the committed call added to the table.
NewRows == (Len(before) + 1)..Len(target)

\* The measure a staging row of the scd.Metric feeds names, if the database
\* knows it.
MeasuresNamed(r) == { m \in Measure : m.measure_description = r.MetricName }

\* A target row has the natural key of a staging row of the scd.Metric feeds:
\* the same metric, period and specialty.
SameMetricKey(t, r) ==
    /\ r.SpecialtyTrust # Null
    /\ r.Period # Null
    /\ \E m \in MeasuresNamed(r) : t.Measure_ID = m.measure_id
    /\ t.Period = CastDate(r.Period).value
    /\ t.DIM1 = r.SpecialtyTrust

\* The rows added for a staging row: they carry its measure values and the
\* change type 'Inserted'.
InsertedFor(r) ==
    { i \in NewRows :
        /\ \E m \in MeasuresNamed(r) : target[i].Measure_ID = m.measure_id
        /\ target[i].Period = CastDate(r.Period).value
        /\ target[i].DIM1 = r.SpecialtyTrust
        /\ target[i].Numerator = r.Numerator
        /\ target[i].Denominator = r.Denominator
        /\ target[i].UpdatedBy = r.SourceFile
        /\ target[i].UpdateType = "Inserted" }

Unmatched(r) == \A i \in 1..Len(before) : ~SameMetricKey(before[i], r)

\* The staging rows the statement reads: the metric is known to scd.measure
\* and the numerator is neither null nor empty.
InSourceSet(r) ==
    /\ MeasuresNamed(r) # {}
    /\ r.Numerator \notin {Null, Empty}

MetricCommitted == mpc = "committed" /\ stmt \in {"blob", "share"}

\* C12 as claimed: after a merge into scd.Metric, every staging row that has
\* no target row matching on the natural key has exactly one new target row,
\* with the staging measure values and change type 'Inserted'.
C12_EveryUnmatchedRowInserted ==
    MetricCommitted =>
        \A j \in 1..Len(source) :
            Unmatched(source[j]) => Cardinality(InsertedFor(source[j])) = 1

\* C12 as amended: that holds for the staging rows of the statement's source
\* set; a staging row whose metric scd.measure does not know, or whose
\* numerator is null or empty, gets no target row, so the rows added are
\* exactly those of the unmatched rows of the source set.
C12_UnmatchedSourceRowInserted ==
    MetricCommitted =>
        LET unmatched == { j \in 1..Len(source) :
                             InSourceSet(source[j]) /\ Unmatched(source[j]) }
        IN  /\ \A j \in unmatched : Cardinality(InsertedFor(source[j])) = 1
            /\ \A j \in 1..Len(source) :
                  ~InSourceSet(source[j]) => InsertedFor(source[j]) = {}
            /\ Cardinality(NewRows) = Cardinality(unmatched)

\* C12 witness: a merge committed that inserted one staging row next to an
\* older target row and left out another staging row.
C12_Witness ==
    /\ MetricCommitted
    /\ before # <<>>
    /\ \E j \in 1..Len(source) :
          InSourceSet(source[j]) /\ Unmatched(source[j])
    /\ \E j \in 1..Len(source) : ~InSourceSet(source[j])

\* The tracked measure columns of a statement's tables.
MeasureColumns(st) ==
    IF st = "er" THEN {"Plan", "Activity", "Variance"}
    ELSE {"Numerator", "Denominator"}

\* The staging row carries the values the target row has: a populated value
\* the same, a missing value missing.
Unchanged(st, t, s) == \A c \in MeasureColumns(st) : s[c] = t[c]

\* Row i of the table before the call is paired with row j of the source set.
Paired(i, j) ==
    Matches(stmt, before[i], SourceSet(stmt, source)[j], now)

\* The columns of a target row that say who changed it, when and how.
Provenance(st, t) ==
    IF st = "er" THEN <<t.SourceFile, t.FYear>>
    ELSE <<t.UpdatedBy, t.UpdateDTTM, t.UpdateType>>

\* C13: merge no-op.  A target row with key K, met by a staging row with the
\* same K whose measure values are all unchanged, has after the merge the
\* updated-by, updated-at and change-type fields it had before, and the
\* measure values too.
C13_UnchangedRowKeepsStamp ==
    mpc = "committed" =>
        \A i \in 1..Len(before) :
            \A j \in 1..Len(SourceSet(stmt, source)) :
                (/\ Paired(i, j)
                 /\ Unchanged(stmt, before[i], SourceSet(stmt, source)[j]))
                => /\ Provenance(stmt, target[i]) = Provenance(stmt, before[i])
                   /\ target[i] = before[i]

\* C13 witness: a later file's merge committed that met a target row with
\* unchanged values and changed another row of the table.
C13_Witness ==
    /\ mpc = "committed"
    /\ target # before
    /\ Len(target) = Len(before)
    /\ \E i \in 1..Len(before) :
          \E j \in 1..Len(SourceSet(stmt, source)) :
              /\ Paired(i, j)
              /\ Unchanged(stmt, before[i], SourceSet(stmt, source)[j])
              /\ SourceSet(stmt, source)[j].SourceFile
                    # Provenance(stmt, before[i])[1]

\* ============================================= claims on archive and listing
\* C14: across any sequence of runs a file that has been archived is never a
\* candidate again.  The copy in the archive location is never among the
\* candidates of a feed and is never downloaded: the object-store listing
\* returns it and the 'Processed' filter drops it, and the file-share archive
\* directory is no file entry of a listed directory.  The source entry, once
\* deleted, is not among the candidates a run still has to process.
C14_ArchivedNeverCandidate ==
    /\ \A i \in 1..Len(files) : files[i] \notin ArchivePaths
    /\ \A i \in EventIdx : events[i].file \notin ArchivePaths
    /\ \A i \in 1..Len(files) : remote[files[i]] = NoFile => i <= idx
    /\ \A i \in 1..Len(listing) :
          listing[i].name.store = "share" => listing[i].name \notin ArchivePaths

\* C14 witness: a later run listed the object store while it held an archived
\* copy, and found a candidate next to it.
C14_Witness ==
    /\ \E i \in 1..Len(listing) : listing[i].name \in ArchivePaths
    /\ files # <<>>
    /\ merged # {}

\* C15: every archive call terminates.  A call that is polling the copy
\* status leaves the poll: the status becomes terminal or, when it stays
\* pending, the call ends with an archive error after a timeout (without
\* deleting the source entry).
C15_ArchiveCallTerminates == (pc = "poll") ~> (pc # "poll")

\* A tracked measure column differs between the staging row and the target
\* row: a missing value differs from a populated one, two missing values are
\* equal.
Differs(st, t, s) == \E c \in MeasureColumns(st) : s[c] # t[c]

\* Row i of the table was updated from the row s of the source set: the
\* measure columns overwritten and the row stamped with the file, the time of
\* the call and 'Updated' (the ElectiveRecovery table has a source-file
\* column only).
IsUpdatedFrom(i, s) ==
    /\ \A c \in MeasureColumns(stmt) : target[i][c] = s[c]
    /\ IF stmt = "er" THEN target[i].SourceFile = s.SourceFile
       ELSE /\ target[i].UpdatedBy = s.SourceFile
            /\ target[i].UpdateDTTM = now
            /\ target[i].UpdateType = "Updated"

\* The update rule, for the statements in S.
UpdateRuleHolds(S) ==
    (mpc = "committed" /\ stmt \in S) =>
        \A i \in 1..Len(before) :
            \A j \in 1..Len(SourceSet(stmt, source)) :
                Paired(i, j) =>
                    LET s == SourceSet(stmt, source)[j]
                    IN  IF Differs(stmt, before[i], s)
                        THEN IsUpdatedFrom(i, s)
                        ELSE target[i] = before[i]

\* C16: merge update rule.  In the merge of every feed a matched target row is
\* updated (measure columns overwritten, updated-by and updated-at stamped,
\* change type 'Updated') exactly when at least one tracked measure column
\* differs between staging and target, a null on one side and a populated
\* value on the other counting as different and two nulls as equal.
C16_UpdatedExactlyWhenDiffers == UpdateRuleHolds(Statements)

\* C17: merge idempotence.  Once the merge of a staging table has committed,
\* running the merge again with the same staging contents (an already-merged
\* file processed again after a crash) leaves the target table, with every
\* updated-at stamp and change type, as the first merge left it.
C17_RerunChangesNothing ==
    [][(commits >= 1 /\ source' = source) => target' = target]_vars

\* ============================================ claims on the normalization
\* The lines taken one by one end as the run's PrepareData ends for a first
\* file.
StepsAgree ==
    LET r == Prepare(normFeed, NoData, rawTable)
    IN  /\ normAt = "normalized" => r.out = "stage" /\ r.data = normData
        /\ normAt = "rejected" => r.out = "reject"
        /\ normAt = "raised" => r.out = "raise" /\ r.err = normData.err

\* The value of row i of table t under the column named c.
CellOf(t, i, c) == t.rows[i][IndexOf(t.cols, c)]

\* C18: the object-store feed's normalization of a raw table that contains
\* the required columns, in any column order and with or without further
\* columns, gives a table with exactly the canonical columns in canonical
\* order, in which each canonical column holds the values the raw table had
\* under that name, row for row (seen before the Period transform rewrites
\* the Period values).
C18_ColumnsByName ==
    (normFeed = "blob" /\ RequiredColumns \subseteq Range(rawTable.cols)) =>
        /\ normAt # "rejected"
        /\ ~(normAt = "raised" /\ normData.at = "rename")
        /\ normAt = "strip" =>
              /\ normData.cols = CanonicalColumns
              /\ Len(normData.rows) = Len(rawTable.rows)
              /\ \A i \in 1..Len(rawTable.rows) :
                    \A c \in Range(CanonicalColumns) :
                        CellOf(normData, i, c) = CellOf(rawTable, i, c)

\* The table the Period transform starts from.
BeforeStrip ==
    IF normFeed = "blob" THEN [rawTable EXCEPT !.cols = CanonicalColumns]
    ELSE rawTable

\* s without a leading "01/", taken off once; s itself when it does not start
\* with "01/".
WithoutPrefix01(s) ==
    IF Len(s) >= 3 /\ SubSeq(s, 1, 3) = <<"0", "1", "/">>
    THEN SubSeq(s, 4, Len(s))
    ELSE s

\* C19: the Period transform removes only a literal leading "01/" from the
\* string form of the value, once, and nothing from a value that does not
\* start with "01/"; every other character reaches the date parser unchanged.
C19_OnlyLiteralPrefixRemoved ==
    normAt = "parse" =>
        \A i \in 1..Len(normData.rows) :
            CellOf(normData, i, "Period")
                = WithoutPrefix01(CellOf(BeforeStrip, i, "Period"))

\* =========================================== claims on the merge, continued
\* No row of the source set is paired with row i of the table before the call.
NoSourceRowFor(i) ==
    \A j \in 1..Len(SourceSet(stmt, source)) : ~Paired(i, j)

\* C20: the merge never deletes or modifies a target row that has no matching
\* row in the staging source set: every such row is the same before and after
\* the merge, and no row of the table is taken away.
C20_UnmatchedTargetRowsKept ==
    mpc = "committed" =>
        /\ Len(target) >= Len(before)
        /\ \A i \in 1..Len(before) : NoSourceRowFor(i) => target[i] = before[i]

\* C20 witness: a merge committed that changed the table and met a target row
\* no staging row of the source set matched.
C20_Witness ==
    /\ mpc = "committed"
    /\ target # before
    /\ source # <<>>
    /\ \E i \in 1..Len(before) : NoSourceRowFor(i)

\* ============================================ claims on the merge source set
\* The staging row has no numerator: the cell is NULL or the empty string.
NumeratorMissing(r) == r.Numerator \in {Null, Empty}

\* The staging table without its rows that have no numerator.
WithNumerator == SelectSeq(source, LAMBDA r : ~NumeratorMissing(r))

\* C21: staging rows of the numerator/denominator feeds whose numerator is
\* null or empty are excluded from the merge source set.  In the object-store
\* merge and in the file-share generic merge such a row causes no insert and
\* no update: no row is added for it, the target row with its key is as it
\* was, and the table is what the merge of the other staging rows gives.
C21_RowsWithoutNumeratorExcluded ==
    MetricCommitted =>
        /\ target = MergeResult(stmt, before, WithNumerator, now)
        /\ \A j \in 1..Len(source) :
              NumeratorMissing(source[j]) =>
                  /\ InsertedFor(source[j]) = {}
                  /\ \A i \in 1..Len(before) :
                        SameMetricKey(before[i], source[j]) =>
                            target[i] = before[i]

\* C21 witness: a merge committed that changed the table, while a staging row
\* without numerator met a target row with its key and another denominator.
C21_Witness ==
    /\ MetricCommitted
    /\ target # before
    /\ \E j \in 1..Len(source) :
          /\ NumeratorMissing(source[j])
          /\ \E i \in 1..Len(before) :
                /\ SameMetricKey(before[i], source[j])
                /\ before[i].Denominator # source[j].Denominator

\* ================================================== claims on the staging
\* The staging table the merge of the current file reads.
CurStaging == staging[StagingName(CurFeed)]

\* C22: after each staging step the staging table holds exactly the rows of
\* the current file's table and nothing from any earlier file, so the merge
\* that follows reads only the current file's rows: between the staging
\* replace and the merge the table is the normalized table of the file being
\* processed, and every row names that file.
C22_StagingIsCurrentFile ==
    pc = "merge" =>
        /\ CurStaging = data
        /\ NormalizedTable(CurFeed, CurFile, local).ok
        /\ CurStaging = NormalizedTable(CurFeed, CurFile, local).data
        /\ \A i \in 1..Len(CurStaging.rows) :
              CellOf(CurStaging, i, "SourceFile") = FileName(CurFile)

\* C22 witness: a file without rows has been staged in the table where an
\* earlier file of the run had put a row.
C22_Witness ==
    /\ pc = "merge"
    /\ local = "empty"
    /\ CurStaging.rows = <<>>
    /\ \E i \in EventIdx :
          /\ events[i].op = "stage"
          /\ events[i].content = "good"
          /\ events[i].file # CurFile
          /\ StagingName(events[i].feed) = StagingName(CurFeed)

\* ========================================== claims on the change detector
\* The positions of a feed's for loop.
FilePositions ==
    {"download", "parse", "prepare", "stage", "merge", "copy", "poll",
     "delete", "log"}

\* The run is at a file of the current feed, or ended there.
InFeedLoop ==
    \/ pc \in FilePositions
    \/ pc \in {"failed", "killed"} /\ err.at \in FilePositions

\* The files of the current feed that this run has staged, merged and logged.
LoggedInFeed == { i \in EventIdx : events[i].op = "log" /\ events[i].feed = CurFeed }

LastOf(S) == CHOOSE i \in S : \A k \in S : k <= i

C24_FilteredFileIsLoadable ==
    /\ \A i \in EventIdx :
          (events[i].op = "download" /\ FilterAccepts(events[i].file)) =>
              LoaderAccepts(events[i].file)
    /\ err.type # "DataFileError"

\* ================================================= claims on the job end
RefreshEvents == { i \in EventIdx : events[i].op = "refresh" }

\* The step emits the refresh signal.
EmitsRefresh == Len(events') = Len(events) + 1 /\ events'[Len(events')].op = "refresh"

\* The step starts a new run.
StartsRun == pc \in {"failed", "killed", "done"} /\ pc' = "list"

\* C25: the refresh signal is emitted at most once per run, only after all
\* three feeds have finished, and only if at least one file's merge committed
\* during this run; the changed flag is never reset to false once set.
C25_RefreshOnceAfterFeeds ==
    /\ [](/\ Cardinality(RefreshEvents) <= 1
          /\ \A i \in RefreshEvents :
                /\ \E j \in 1..(i - 1) : events[j].op = "merge"
                /\ \A j \in EventIdx : events[j].feed # "job" => j < i
                /\ feed = Len(FeedSeq)
                /\ idx = Len(files)
                /\ \A k \in 1..Len(files) :
                      Occurrences("download", CurFeed, files[k]) # {})
    /\ [][/\ EmitsRefresh => (pc = "jobend" /\ feed = Len(FeedSeq) /\ data_changed)
          /\ data_changed => (data_changed' \/ StartsRun)]_vars

\* C25 witness: a run has emitted the refresh signal after a file that
\* changed nothing had followed a file whose merge committed.
C25_Witness ==
    /\ RefreshEvents # {}
    /\ \E i \in EventIdx : \E j \in EventIdx :
          /\ i < j
          /\ events[i].op = "merge"
          /\ events[j].op \in {"dup", "reject"}

====
